---- MODULE Spec2Model ----
(***************************************************************************)
(* Model of the concurrent crawl orchestrator of rust_crawler (src/main.rs):*)
(* the permit pool (tokio Semaphore), the spawned chapter tasks, the       *)
(* bounded mpsc result channel, the collector loop with its 30 s receive   *)
(* timeout and 300 s give-up threshold, and the sort-and-write pass.       *)
(***************************************************************************)
EXTENDS Integers, Sequences, FiniteSets, TLC

\* ------------------------------------------------------------------ bounds
\* Largest number of chapter links a catalog page yields in the model.
MaxChapters == 3
\* Largest configured concurrent_limit in the model (0 is a legal usize).
MaxLimit == 2

\* ------------------------------------------------------- program constants
\* Duration::from_secs(30): the per-attempt receive timeout.
RecvTimeout == 30
\* `if waiting_time > 300`: the give-up threshold of the collector.
StallCeiling == 300

Indices == 0 .. (MaxChapters - 1)

None == "None"

\* ------------------------------------------------------------ ChapterResult
\* ChapterResult::success
ChapterResultSuccess(index, title, content) ==
    [index |-> index, title |-> title, content |-> content,
     success |-> TRUE, error_msg |-> None]

\* A plausible slip: the failure constructor keeps no error text.
ChapterResultFailureNoMsg(index, error_msg) ==
    [index |-> index, title |-> "", content |-> << >>,
     success |-> FALSE, error_msg |-> None]

\* ChapterResult::failure
ChapterResultFailure(index, error_msg) ==
    [index |-> index, title |-> "", content |-> << >>,
     success |-> FALSE, error_msg |-> error_msg]

\* ------------------------------------------------------------ chapter pages
\* What the transport and the selectors give a worker for one chapter:
\*   kind "send_err"  client.get(..).send() failed
\*   kind "body_err"  resp.text() failed
\*   kind "html"      a page: the texts of the title-selector matches and of
\*                    the content-selector matches, in document order
TitleText(index) == "T" \o ToString(index)
ParaText(index) == "P" \o ToString(index)

SendErr == [kind |-> "send_err", titles |-> << >>, paras |-> << >>]
BodyErr == [kind |-> "body_err", titles |-> << >>, paras |-> << >>]
PageNoTitle == [kind |-> "html", titles |-> << >>, paras |-> << "x" >>]
PageGood(index) == [kind |-> "html", titles |-> << TitleText(index) >>,
                    paras |-> << "", ParaText(index) >>]

\* The outcomes the model injects for chapter `index`: either page, and one
\* transport error (send() fails for even indices, text() for odd ones).
FetchOutcomes(index) ==
    {IF index % 2 = 0 THEN SendErr ELSE BodyErr, PageNoTitle, PageGood(index)}

\* .filter_map(|p| if !text.is_empty() { Some(text) } else { None })
RECURSIVE FilterNonEmpty(_)
FilterNonEmpty(texts) ==
    IF texts = << >> THEN << >>
    ELSE IF Head(texts) # "" THEN << Head(texts) >> \o FilterNonEmpty(Tail(texts))
         ELSE FilterNonEmpty(Tail(texts))

\* The `match` of the worker task: the Result a fetch outcome becomes.
BuildResult(index, outcome) ==
    IF outcome.kind = "send_err" THEN ChapterResultFailure(index, "Send failed: e")
    ELSE IF outcome.kind = "body_err"
         THEN ChapterResultFailure(index, "Request failed: e")
    ELSE IF outcome.titles = << >>
         THEN ChapterResultFailure(index, "Chapter title not found")
         ELSE ChapterResultSuccess(index, Head(outcome.titles),
                                   FilterNonEmpty(outcome.paras))

\* ------------------------------------------------------------------- sorting
\* A plausible slip: the results are written in arrival order.
SortByIndexMissing(results) == results

\* Stable insertion of r into a sequence sorted by index.
RECURSIVE InsertByIndex(_, _)
InsertByIndex(r, sorted) ==
    IF sorted = << >> THEN << r >>
    ELSE IF r.index < Head(sorted).index THEN << r >> \o sorted
         ELSE << Head(sorted) >> \o InsertByIndex(r, Tail(sorted))

RECURSIVE SortFrom(_, _)
SortFrom(results, acc) ==
    IF results = << >> THEN acc
    ELSE SortFrom(Tail(results), InsertByIndex(Head(results), acc))

\* chapter_results.sort_by_key(|r| r.index)  (a stable sort)
SortByIndex(results) == SortFrom(results, << >>)

\* ------------------------------------------------------------- write_chapter
\* The lines write_chapter builds for one chapter: title, then paragraphs.
ChapterLines(result) == << result.title >> \o result.content

\* The outcomes of write_all: "ok", or an error after `n` whole lines went out.
WriteOutcomes(result) ==
    {[ok |-> TRUE, n |-> Len(ChapterLines(result))]}
        \cup {[ok |-> FALSE, n |-> k] : k \in 0 .. (Len(ChapterLines(result)) - 1)}

\* The file after write_chapter(result) ended with outcome `o`.
WriteChapter(file, result, o) ==
    IF o.n = 0 THEN file
    ELSE Append(file, [chapter_num |-> result.index + 1,
                       lines |-> SubSeq(ChapterLines(result), 1, o.n)])

\* --------------------------------------------------------------------- state
VARIABLES
    pc,               \* where main is
    concurrent_limit, \* config.crawl.concurrent_limit
    permits,          \* available permits of the Semaphore
    total_chapters,   \* chapter_urls.len()
    spawned,          \* the dispatch loop's index
    wpc,              \* where each chapter task is
    wres,             \* the `result` a task has built
    emitted,          \* history: Results each task has put into the channel
    chan,             \* the mpsc channel's queue
    rx_open,          \* the receiver `rx` has not been dropped
    chapter_results,
    log_in_order,     \* the result.log() lines so far are in index order
    pending_count,
    waiting_time,
    success_count,
    fail_count,
    wi,               \* the write loop's position
    output_file,      \* the blocks written, in write order
    calc              \* the input and the output of a function run on its own

vars == << pc, concurrent_limit, permits, total_chapters, spawned, wpc, wres,
           emitted, chan, rx_open, chapter_results, log_in_order, pending_count,
           waiting_time,
           success_count, fail_count, wi, output_file, calc >>

\* The state of a crawl: everything but `calc`.
crawlVars == << pc, concurrent_limit, permits, total_chapters, spawned, wpc,
               wres, emitted, chan, rx_open, chapter_results, log_in_order,
               pending_count, waiting_time, success_count, fail_count, wi,
               output_file >>

mainVars == << chapter_results, log_in_order, pending_count, waiting_time,
               success_count, fail_count, wi, output_file >>

workerVars == << wpc, wres, emitted >>

NoResult == [index |-> 0, title |-> "", content |-> << >>,
             success |-> FALSE, error_msg |-> None]

Workers == 0 .. (total_chapters - 1)

\* A task holds a permit from `acquire` until `_permit` is dropped.
Holding(w) == wpc[w] \in {"fetch", "send", "release"}
Holders == {w \in Indices : Holding(w)}

\* result.log() of `result` comes after the lines already logged, in index order.
LogsAfter(results, result) ==
    results = << >> \/ results[Len(results)].index < result.index

\* No function is being run on its own.
Idle == [stage |-> "idle", input |-> << >>, output |-> << >>]

CrawlInit ==
    /\ pc = "catalog"
    /\ concurrent_limit \in 0 .. MaxLimit
    /\ permits = concurrent_limit
    /\ total_chapters = 0
    /\ spawned = 0
    /\ wpc = [w \in Indices |-> "none"]
    /\ wres = [w \in Indices |-> NoResult]
    /\ emitted = [w \in Indices |-> 0]
    /\ chan = << >>
    /\ rx_open = FALSE
    /\ chapter_results = << >>
    /\ log_in_order = TRUE
    /\ pending_count = 0
    /\ waiting_time = 0
    /\ success_count = 0
    /\ fail_count = 0
    /\ wi = 0
    /\ output_file = << >>

Init ==
    /\ CrawlInit
    /\ calc = Idle

\* ---------------------------------------------------------------------- main
\* The catalog fetch fails: `.send().await?.text().await?` returns the error.
CatalogFails ==
    /\ pc = "catalog"
    /\ pc' = "fatal"
    /\ UNCHANGED << concurrent_limit, permits, total_chapters, spawned, chan,
                    rx_open >>
    /\ UNCHANGED workerVars
    /\ UNCHANGED mainVars
    /\ UNCHANGED calc

\* A plausible slip: an empty catalog goes on to dispatch and collection.
CatalogDoneEmptyGoesOn ==
    /\ pc = "catalog"
    /\ \E m \in 0 .. MaxChapters :
        /\ total_chapters' = m
        /\ pc' = IF m = 0 THEN "collect" ELSE "dispatch"
        /\ rx_open' = TRUE
    /\ UNCHANGED << concurrent_limit, permits, spawned, chan >>
    /\ UNCHANGED workerVars
    /\ UNCHANGED mainVars
    /\ UNCHANGED calc

\* The catalog page is parsed into m chapter urls and the channel is created;
\* mpsc::channel(0) panics.
CatalogDone ==
    /\ pc = "catalog"
    /\ \E m \in 0 .. MaxChapters :
        /\ total_chapters' = m
        /\ IF m = 0
           THEN /\ pc' = "panicked"
                /\ rx_open' = FALSE
           ELSE /\ pc' = "dispatch"
                /\ rx_open' = TRUE
    /\ UNCHANGED << concurrent_limit, permits, spawned, chan >>
    /\ UNCHANGED workerVars
    /\ UNCHANGED mainVars
    /\ UNCHANGED calc

\* One iteration of `for index in 0..total_chapters`: tokio::spawn the task.
\* After the last one main initialises the collector's locals.
Spawn ==
    /\ pc = "dispatch"
    /\ spawned < total_chapters
    /\ wpc' = [wpc EXCEPT ![spawned] = "acquire"]
    /\ spawned' = spawned + 1
    /\ IF spawned + 1 = total_chapters
       THEN /\ pc' = "collect"
            /\ pending_count' = total_chapters
       ELSE UNCHANGED << pc, pending_count >>
    /\ UNCHANGED << concurrent_limit, permits, total_chapters, wres, emitted,
                    chan, rx_open, chapter_results, log_in_order,
                    waiting_time, success_count, fail_count, wi, output_file >>
    /\ UNCHANGED calc

\* A plausible slip: a received Result is stored but `pending_count -= 1` is
\* missing.
RecvNoDecrement ==
    /\ pc = "collect"
    /\ pending_count > 0
    /\ chan # << >>
    /\ chan' = Tail(chan)
    /\ waiting_time' = 0
    /\ log_in_order' = (log_in_order /\ LogsAfter(chapter_results, Head(chan)))
    /\ chapter_results' = Append(chapter_results, Head(chan))
    /\ UNCHANGED << pc, concurrent_limit, permits, total_chapters, spawned,
                    rx_open, pending_count, success_count, fail_count, wi,
                    output_file >>
    /\ UNCHANGED workerVars
    /\ UNCHANGED calc

\* A plausible slip: `waiting_time = 0` is missing, so the counter runs over
\* the whole collection.
RecvNoReset ==
    /\ pc = "collect"
    /\ pending_count > 0
    /\ chan # << >>
    /\ chan' = Tail(chan)
    /\ pending_count' = pending_count - 1
    /\ log_in_order' = (log_in_order /\ LogsAfter(chapter_results, Head(chan)))
    /\ IF pending_count - 1 > 0
       THEN /\ chapter_results' = Append(chapter_results, Head(chan))
            /\ pc' = "collect"
       ELSE /\ chapter_results' = SortByIndex(Append(chapter_results, Head(chan)))
            /\ pc' = "write"
    /\ UNCHANGED << concurrent_limit, permits, total_chapters, spawned, rx_open,
                    waiting_time, success_count, fail_count, wi, output_file >>
    /\ UNCHANGED workerVars
    /\ UNCHANGED calc

\* timeout(30 s, rx.recv()) returns Ok(Some(result)). (It cannot return
\* Ok(None) here: main's own `tx` keeps the channel open until main returns.)
Recv ==
    /\ pc = "collect"
    /\ pending_count > 0
    /\ chan # << >>
    /\ chan' = Tail(chan)
    /\ pending_count' = pending_count - 1
    /\ waiting_time' = 0
    /\ log_in_order' = (log_in_order /\ LogsAfter(chapter_results, Head(chan)))
    /\ IF pending_count - 1 > 0
       THEN /\ chapter_results' = Append(chapter_results, Head(chan))
            /\ pc' = "collect"
       ELSE /\ chapter_results' = SortByIndex(Append(chapter_results, Head(chan)))
            /\ pc' = "write"
    /\ UNCHANGED << concurrent_limit, permits, total_chapters, spawned, rx_open,
                    success_count, fail_count, wi, output_file >>
    /\ UNCHANGED workerVars
    /\ UNCHANGED calc

\* A plausible slip: a timed-out receive starts the collection over.
TimeoutClearsResults ==
    /\ pc = "collect"
    /\ pending_count > 0
    /\ chan = << >>
    /\ waiting_time' = waiting_time + RecvTimeout
    /\ chapter_results' = << >>
    /\ pc' = IF waiting_time + RecvTimeout > StallCeiling THEN "write" ELSE pc
    /\ UNCHANGED << concurrent_limit, permits, total_chapters, spawned, chan,
                    rx_open, log_in_order, pending_count, success_count,
                    fail_count, wi, output_file >>
    /\ UNCHANGED workerVars
    /\ UNCHANGED calc

\* A plausible slip: `waiting_time += 30` is missing.
TimeoutNoCount ==
    /\ pc = "collect"
    /\ pending_count > 0
    /\ chan = << >>
    /\ IF waiting_time > StallCeiling
       THEN /\ chapter_results' = SortByIndex(chapter_results)
            /\ pc' = "write"
       ELSE UNCHANGED << chapter_results, pc >>
    /\ UNCHANGED << concurrent_limit, permits, total_chapters, spawned, chan,
                    rx_open, log_in_order, pending_count, waiting_time,
                    success_count, fail_count, wi, output_file >>
    /\ UNCHANGED workerVars
    /\ UNCHANGED calc

\* timeout(30 s, rx.recv()) returns Err(Elapsed): nothing arrived in 30 s.
Timeout ==
    /\ pc = "collect"
    /\ pending_count > 0
    /\ chan = << >>
    /\ waiting_time' = waiting_time + RecvTimeout
    /\ IF waiting_time + RecvTimeout > StallCeiling
       THEN /\ chapter_results' = SortByIndex(chapter_results)
            /\ pc' = "write"
       ELSE UNCHANGED << chapter_results, pc >>
    /\ UNCHANGED << concurrent_limit, permits, total_chapters, spawned, chan,
                    rx_open, log_in_order, pending_count, success_count,
                    fail_count, wi, output_file >>
    /\ UNCHANGED workerVars
    /\ UNCHANGED calc

\* A plausible slip: a failed Result is skipped without being counted.
ProcessResultSkipsFailure(result, o, file, successes, failures) ==
    IF result.success
    THEN IF o.ok
         THEN [file |-> WriteChapter(file, result, o),
               success_count |-> successes + 1, fail_count |-> failures]
         ELSE [file |-> WriteChapter(file, result, o),
               success_count |-> successes, fail_count |-> failures + 1]
    ELSE [file |-> file, success_count |-> successes, fail_count |-> failures]

\* The body of the write loop for one Result, write_chapter ending with `o`.
ProcessResult(result, o, file, successes, failures) ==
    IF result.success
    THEN IF o.ok
         THEN [file |-> WriteChapter(file, result, o),
               success_count |-> successes + 1, fail_count |-> failures]
         ELSE [file |-> WriteChapter(file, result, o),
               success_count |-> successes, fail_count |-> failures + 1]
    ELSE [file |-> file, success_count |-> successes,
          fail_count |-> failures + 1]

\* A plausible slip: write_chapter(...)? returns the write error from main.
WriteStepStopsOnError ==
    /\ pc = "write"
    /\ wi < Len(chapter_results)
    /\ \E o \in WriteOutcomes(chapter_results[wi + 1]) :
        LET after == ProcessResult(chapter_results[wi + 1], o, output_file,
                                   success_count, fail_count)
        IN  /\ output_file' = after.file
            /\ success_count' = after.success_count
            /\ fail_count' = after.fail_count
            /\ pc' = IF chapter_results[wi + 1].success /\ ~o.ok THEN "fatal" ELSE pc
    /\ wi' = wi + 1
    /\ UNCHANGED << concurrent_limit, permits, total_chapters, spawned, chan,
                    rx_open, chapter_results, log_in_order, pending_count,
                    waiting_time >>
    /\ UNCHANGED workerVars
    /\ UNCHANGED calc

\* One iteration of the write loop.
WriteStep ==
    /\ pc = "write"
    /\ wi < Len(chapter_results)
    /\ \E o \in WriteOutcomes(chapter_results[wi + 1]) :
        LET after == ProcessResult(chapter_results[wi + 1], o, output_file,
                                   success_count, fail_count)
        IN  /\ output_file' = after.file
            /\ success_count' = after.success_count
            /\ fail_count' = after.fail_count
    /\ wi' = wi + 1
    /\ UNCHANGED << pc, concurrent_limit, permits, total_chapters, spawned, chan,
                    rx_open, chapter_results, log_in_order, pending_count,
                    waiting_time >>
    /\ UNCHANGED workerVars
    /\ UNCHANGED calc

\* A plausible slip: before returning, main takes the late Results out of the
\* channel and adds them to the collected ones.
MainReturnTakesStragglers ==
    /\ pc = "write"
    /\ wi = Len(chapter_results)
    /\ IF chan # << >>
       THEN /\ chapter_results' = Append(chapter_results, Head(chan))
            /\ chan' = Tail(chan)
            /\ UNCHANGED << pc, rx_open >>
       ELSE /\ pc' = "done"
            /\ rx_open' = FALSE
            /\ UNCHANGED << chan, chapter_results >>
    /\ UNCHANGED << concurrent_limit, permits, total_chapters, spawned >>
    /\ UNCHANGED workerVars
    /\ UNCHANGED << log_in_order, pending_count, waiting_time, success_count,
                    fail_count, wi, output_file >>
    /\ UNCHANGED calc

\* main returns Ok(()): `rx` and `tx` are dropped with main's locals (the
\* queued Results with them) and the runtime shuts down.
MainReturn ==
    /\ pc = "write"
    /\ wi = Len(chapter_results)
    /\ pc' = "done"
    /\ rx_open' = FALSE
    /\ chan' = << >>
    /\ UNCHANGED << concurrent_limit, permits, total_chapters, spawned >>
    /\ UNCHANGED workerVars
    /\ UNCHANGED mainVars
    /\ UNCHANGED calc

\* ------------------------------------------------------------ a chapter task
\* A plausible slip: the task starts its fetch without waiting for a permit.
AcquireUnguarded(w) ==
    /\ wpc[w] = "acquire"
    /\ permits' = permits - 1
    /\ wpc' = [wpc EXCEPT ![w] = "fetch"]
    /\ UNCHANGED << pc, concurrent_limit, total_chapters, spawned, wres, emitted,
                    chan, rx_open >>
    /\ UNCHANGED mainVars
    /\ UNCHANGED calc

\* semaphore.acquire().await
Acquire(w) ==
    /\ wpc[w] = "acquire"
    /\ permits > 0
    /\ permits' = permits - 1
    /\ wpc' = [wpc EXCEPT ![w] = "fetch"]
    /\ UNCHANGED << pc, concurrent_limit, total_chapters, spawned, wres, emitted,
                    chan, rx_open >>
    /\ UNCHANGED mainVars
    /\ UNCHANGED calc

\* The fetch returns (a page or an error) and the task builds its Result.
FetchDone(w) ==
    /\ wpc[w] = "fetch"
    /\ \E outcome \in FetchOutcomes(w) :
        wres' = [wres EXCEPT ![w] = BuildResult(w, outcome)]
    /\ wpc' = [wpc EXCEPT ![w] = "send"]
    /\ UNCHANGED << pc, concurrent_limit, permits, total_chapters, spawned,
                    emitted, chan, rx_open >>
    /\ UNCHANGED mainVars
    /\ UNCHANGED calc

\* A plausible slip: the channel is sized by the concurrency limit.
ChannelCapacityIsLimit == concurrent_limit

\* mpsc::channel::<ChapterResult>(total_chapters)
ChannelCapacity == total_chapters

\* A plausible slip: `_permit` is dropped before the send, which ends the task.
SendReleasesFirst(w) ==
    /\ wpc[w] = "send"
    /\ permits' = permits + 1
    /\ IF rx_open
       THEN /\ Len(chan) < ChannelCapacity
            /\ chan' = Append(chan, wres[w])
            /\ emitted' = [emitted EXCEPT ![w] = @ + 1]
       ELSE UNCHANGED << chan, emitted >>
    /\ wpc' = [wpc EXCEPT ![w] = "done"]
    /\ UNCHANGED << pc, concurrent_limit, total_chapters, spawned, wres, rx_open >>
    /\ UNCHANGED mainVars
    /\ UNCHANGED calc

\* let _ = tx.send(result).await: waits while the channel is full, and
\* returns an (ignored) error once the receiver is gone.
Send(w) ==
    /\ wpc[w] = "send"
    /\ IF rx_open
       THEN /\ Len(chan) < ChannelCapacity
            /\ chan' = Append(chan, wres[w])
            /\ emitted' = [emitted EXCEPT ![w] = @ + 1]
       ELSE UNCHANGED << chan, emitted >>
    /\ wpc' = [wpc EXCEPT ![w] = "release"]
    /\ UNCHANGED << pc, concurrent_limit, permits, total_chapters, spawned, wres,
                    rx_open >>
    /\ UNCHANGED mainVars
    /\ UNCHANGED calc

\* A plausible slip: the permit is forgotten instead of dropped.
ReleaseLeaks(w) ==
    /\ wpc[w] = "release"
    /\ wpc' = [wpc EXCEPT ![w] = "done"]
    /\ UNCHANGED << pc, concurrent_limit, permits, total_chapters, spawned, wres,
                    emitted, chan, rx_open >>
    /\ UNCHANGED mainVars
    /\ UNCHANGED calc

\* The task's block ends: `_permit` is dropped.
Release(w) ==
    /\ wpc[w] = "release"
    /\ permits' = permits + 1
    /\ wpc' = [wpc EXCEPT ![w] = "done"]
    /\ UNCHANGED << pc, concurrent_limit, total_chapters, spawned, wres, emitted,
                    chan, rx_open >>
    /\ UNCHANGED mainVars
    /\ UNCHANGED calc

\* The runtime's shutdown drops a task suspended at an await, and with it the
\* permit the task holds.
Cancel(w) ==
    /\ pc = "done"
    /\ wpc[w] \in {"acquire", "fetch"}
    /\ permits' = IF Holding(w) THEN permits + 1 ELSE permits
    /\ wpc' = [wpc EXCEPT ![w] = "cancelled"]
    /\ UNCHANGED << pc, concurrent_limit, total_chapters, spawned, wres, emitted,
                    chan, rx_open >>
    /\ UNCHANGED mainVars
    /\ UNCHANGED calc

Next ==
    \/ CatalogFails
    \/ CatalogDone
    \/ Spawn
    \/ Recv
    \/ Timeout
    \/ WriteStep
    \/ MainReturn
    \/ \E w \in Indices : Acquire(w)
    \/ \E w \in Indices : FetchDone(w)
    \/ \E w \in Indices : Send(w)
    \/ \E w \in Indices : Release(w)
    \/ \E w \in Indices : Cancel(w)

Spec == Init /\ [][Next]_vars

\* Only main is sure to run: timeout(30 s, rx.recv()) always returns.
MainFairSpec ==
    /\ Spec
    /\ WF_vars(Recv \/ Timeout)

\* ---------------------------------------------------------------- properties
Finished(w) == wpc[w] \in {"done", "cancelled"}

\* C1: in every reachable state the number of tasks that have acquired a
\* permit and not yet released it is at most concurrent_limit.
C1_AtMostLimitHoldPermits == Cardinality(Holders) <= concurrent_limit

\* The pool is saturated while another task waits for a permit.
C1_Witness ==
    /\ concurrent_limit = 2
    /\ Cardinality(Holders) = 2
    /\ \E w \in Workers : wpc[w] = "acquire"

\* C2: available permits plus tasks holding a permit is always
\* concurrent_limit, a finished task holds no permit, and once every task has
\* finished all concurrent_limit permits are available again.
C2_NoPermitLeak ==
    /\ permits + Cardinality(Holders) = concurrent_limit
    /\ \A w \in Workers : Finished(w) => ~Holding(w)
    /\ (spawned = total_chapters /\ \A w \in Workers : Finished(w))
          => permits = concurrent_limit

\* Three tasks have finished, by success, by a missing title and by a
\* transport error, and both permits are back.
C2_Witness ==
    /\ total_chapters = 3
    /\ concurrent_limit = 2
    /\ \A w \in Workers : wpc[w] = "done"
    /\ \E w \in Workers : wres[w].success
    /\ \E w \in Workers : wres[w].error_msg = "Chapter title not found"
    /\ \E w \in Workers : wres[w].error_msg \in {"Send failed: e", "Request failed: e"}
    /\ permits = 2

\* The run is over: main has returned and no task is left.
RunOver == pc = "done" /\ \A w \in Workers : Finished(w)

\* C3: with concurrent_limit >= 1 every dispatched task eventually puts a
\* Result carrying its own index into the channel, and no task ever puts more
\* than one. Stated on the end of the run: a task that has not emitted by then
\* never will.
C3_EveryWorkerEmitsOnce ==
    /\ \A w \in Workers : emitted[w] <= 1
    /\ (concurrent_limit >= 1 /\ RunOver)
          => \A w \in Workers : emitted[w] = 1 /\ wres[w].index = w

\* ------------------------------------------------- reassembly, stated apart
Range(seq) == {seq[k] : k \in DOMAIN seq}

\* The Results of a set laid out by walking the indices upwards, as they
\* would be received if they arrived in strict index order.
RECURSIVE InIndexOrderFrom(_, _)
InIndexOrderFrom(results, index) ==
    IF index >= MaxChapters THEN << >>
    ELSE (IF \E r \in results : r.index = index
          THEN << CHOOSE r \in results : r.index = index >>
          ELSE << >>) \o InIndexOrderFrom(results, index + 1)

InIndexOrder(results) == InIndexOrderFrom(results, 0)

\* The file a write pass without write errors leaves for results taken in
\* the given order.
RECURSIVE BlocksOf(_)
BlocksOf(results) ==
    IF results = << >> THEN << >>
    ELSE (IF Head(results).success
          THEN << [chapter_num |-> Head(results).index + 1,
                   lines |-> << Head(results).title >> \o Head(results).content] >>
          ELSE << >>) \o BlocksOf(Tail(results))

NumSuccessful(results) == Cardinality({k \in DOMAIN results : results[k].success})
NumFailed(results) == Cardinality({k \in DOMAIN results : ~results[k].success})

Collecting == pc = "collect"
Collected == pc \in {"write", "done"}
WritePassOver == Collected /\ wi = Len(chapter_results)

\* C4: whatever the order in which the Results were received, the write pass
\* takes them in strictly increasing index order, the blocks in the file are
\* strictly increasing by chapter, and a pass without write errors leaves
\* exactly the file that Results received in strict index order leave.
C4_WrittenInIndexOrder ==
    Collected =>
        /\ chapter_results = InIndexOrder(Range(chapter_results))
        /\ \A i, j \in DOMAIN output_file :
              i < j => output_file[i].chapter_num < output_file[j].chapter_num
        /\ (WritePassOver /\ success_count = NumSuccessful(chapter_results))
              => output_file = BlocksOf(InIndexOrder(Range(chapter_results)))

\* Three Results were received out of index order and all three were written.
C4_Witness ==
    /\ WritePassOver
    /\ ~log_in_order
    /\ Len(chapter_results) = 3
    /\ Len(output_file) = 3
    /\ success_count = 3

\* C5: at every step of the collection collected + pending is the number of
\* dispatched chapters, and the collection ends normally (nothing pending)
\* only with exactly one Result for each index 0..total_chapters-1.
C5_CompleteMeansAllReceived ==
    /\ (Collecting \/ Collected)
          => Len(chapter_results) + pending_count = total_chapters
    /\ (Collected /\ pending_count = 0)
          => /\ Len(chapter_results) = total_chapters
             /\ \A w \in Workers :
                   Cardinality({k \in DOMAIN chapter_results :
                                   chapter_results[k].index = w}) = 1

\* The collection of three chapters has ended normally.
C5_Witness ==
    /\ pc = "write"
    /\ wi = 0
    /\ pending_count = 0
    /\ total_chapters = 3

\* A step of the collector is a receive (one Result fewer is pending) or a
\* timed-out attempt (nothing received, the counter or main's position moves).
Received == pending_count' = pending_count - 1
TimedOut ==
    /\ pending_count' = pending_count
    /\ << waiting_time, pc >>' # << waiting_time, pc >>

GaveUp == Collected /\ pending_count > 0

\* C6 as claimed: the stall counter is cumulative over the whole collection,
\* so no step of the collection changes it except a timed-out attempt adding
\* 30, and the collection is over once it exceeds 300.
C6_CounterIsCumulative ==
    [][Collecting =>
          /\ waiting_time' \in {waiting_time, waiting_time + RecvTimeout}
          /\ (waiting_time' > StallCeiling => ~Collecting')]_vars

\* C6 as the code has it: the counter is the time spent in timed-out attempts
\* since the last received Result. A received Result sets it to 0, a timed-out
\* attempt adds 30, and the attempt that takes it above 300 ends the collection
\* with Results still pending.
C6_CounterSinceLastResult ==
    [][Collecting =>
          /\ Received => waiting_time' = 0
          /\ TimedOut =>
                /\ waiting_time' = waiting_time + RecvTimeout
                /\ (waiting_time' > StallCeiling) <=> ~Collecting'
                /\ ~Collecting' => (pc' = "write" /\ pending_count' > 0)
          /\ (~Received /\ ~TimedOut) => waiting_time' = waiting_time]_vars

\* The collector gave up although it had received a Result: eleven timeouts in
\* a row followed the last receive.
C6_Witness ==
    /\ GaveUp
    /\ waiting_time = StallCeiling + RecvTimeout
    /\ Len(chapter_results) >= 1

CountOf(results, index) ==
    Cardinality({k \in DOMAIN results : results[k].index = index})

\* C7: when the collector gives up, what it hands to the write pass is what it
\* received: every Result a task put into the channel is either still in the
\* channel or present exactly once, as the task built it, and nothing else is
\* present.
C7_GiveUpKeepsReceived ==
    (pc = "write" /\ pending_count > 0) =>
        /\ \A w \in Workers :
              CountOf(chapter_results, w) + CountOf(chan, w) = emitted[w]
        /\ \A k \in DOMAIN chapter_results :
              /\ chapter_results[k].index \in Workers
              /\ chapter_results[k] = wres[chapter_results[k].index]
        /\ Len(chapter_results) = total_chapters - pending_count

\* The collector gave up with one Result received, timeouts before and after
\* it, and a straggler's Result has since landed in the channel.
C7_Witness ==
    /\ pc = "write"
    /\ pending_count > 0
    /\ Len(chapter_results) >= 1
    /\ chan # << >>

\* What is left of the collection: every receive and every timed-out attempt
\* lowers it, and it is never negative.
Variant ==
    pending_count * ((StallCeiling \div RecvTimeout) + 2)
        + ((StallCeiling + RecvTimeout - waiting_time) \div RecvTimeout)

\* C8: the collect loop ends after a bounded number of receive attempts, also
\* when tasks never emit, and the run goes on to the write pass.
C8_CollectorTerminates ==
    /\ [][(Collecting /\ (Received \/ TimedOut))
             => (Variant' < Variant /\ Variant' >= 0)]_vars
    /\ Collecting ~> (pc = "write")

\* The write pass was reached with nothing received: one task's fetch hangs
\* and another still waits for a permit.
C8_Witness ==
    /\ pc = "write"
    /\ chapter_results = << >>
    /\ \E w \in Workers : wpc[w] = "fetch"
    /\ \E w \in Workers : wpc[w] = "acquire"

\* The Results that exist: built by a task, queued, or collected.
Built == {wres[w] : w \in {v \in Workers : wpc[v] \in {"send", "release", "done"}}}
AllResults == Built \cup Range(chan) \cup Range(chapter_results)

\* C9: a failed fetch or a missing title becomes a Result with success =
\* false, empty title and content and a non-empty error, the missing-title
\* error differs from every transport error, the run is not aborted, and a
\* complete collection written without write errors holds every successful
\* chapter in index order and counts every failed one.
C9_FailureIsData ==
    /\ \A r \in AllResults :
          ~r.success => (r.title = "" /\ r.content = << >>
                            /\ r.error_msg \notin {None, ""})
    /\ \A w \in Workers : \A a, b \in FetchOutcomes(w) :
          (a.kind = "html" /\ a.titles = << >> /\ b.kind # "html")
              => /\ ~BuildResult(w, a).success
                 /\ ~BuildResult(w, b).success
                 /\ BuildResult(w, a).error_msg # BuildResult(w, b).error_msg
    /\ (\E w \in Indices : wpc[w] # "none") => pc \notin {"fatal", "panicked"}
    /\ (WritePassOver /\ pending_count = 0
            /\ success_count = NumSuccessful(chapter_results))
          => /\ output_file = BlocksOf(InIndexOrder({wres[w] : w \in Workers}))
             /\ fail_count = Cardinality({w \in Workers : ~wres[w].success})

\* Chapters 0, 1, 2 where chapter 1 has no title: chapters 1 and 3 (indices 0
\* and 2) are written in that order and one failure is counted.
C9_Witness ==
    /\ WritePassOver
    /\ total_chapters = 3
    /\ wres[1].error_msg = "Chapter title not found"
    /\ output_file = << [chapter_num |-> 1, lines |-> << "T0", "P0" >>],
                        [chapter_num |-> 3, lines |-> << "T2", "P2" >>] >>
    /\ success_count = 2
    /\ fail_count = 1

Processed == SubSeq(chapter_results, 1, wi)

\* C10: the write pass writes nothing for a failed Result and counts it as a
\* failure, and success_count + fail_count is the number of Results
\* processed, at the end the size of the collected set.
C10_FailuresCountedNotWritten ==
    Collected =>
        /\ success_count + fail_count = wi
        /\ WritePassOver => success_count + fail_count = Len(chapter_results)
        /\ fail_count >= NumFailed(Processed)
        /\ success_count <= NumSuccessful(Processed)
        /\ \A b \in Range(output_file) :
              \E k \in 1 .. wi : /\ chapter_results[k].success
                                 /\ chapter_results[k].index + 1 = b.chapter_num

\* A pass over three Results, failed and successful, without write errors.
C10_Witness ==
    /\ WritePassOver
    /\ Len(chapter_results) = 3
    /\ NumFailed(chapter_results) = 2
    /\ fail_count = 2
    /\ success_count = 1
    /\ Len(output_file) = 1

\* --------------------------------------------- the result match, on its own
\* Longest paragraph list of a page given to the result match on its own.
MaxParas == 3

\* Paragraph texts as p.text() may give them: empty, words, only whitespace.
ParaTexts == {"", "Hello", "  "}

SeqsUpTo(S, n) == UNION {[1 .. k -> S] : k \in 0 .. n}

\* The fetch outcomes given to the result match on its own.
ExtractInputs ==
    {SendErr, BodyErr}
        \cup {[kind |-> "html", titles |-> t, paras |-> ps] :
                 t \in {<< >>, << "Title" >>}, ps \in SeqsUpTo(ParaTexts, MaxParas)}

ExtractInit ==
    /\ CrawlInit
    /\ concurrent_limit = 0
    /\ calc \in {[stage |-> "fetched",
                  input |-> [index |-> i, outcome |-> o],
                  output |-> NoResult] : i \in 0 .. 1, o \in ExtractInputs}

\* The worker task's `match` builds the Result of the fetch outcome.
Build ==
    /\ calc.stage = "fetched"
    /\ calc' = [calc EXCEPT !.stage = "built",
                            !.output = BuildResult(calc.input.index,
                                                   calc.input.outcome)]
    /\ UNCHANGED crawlVars

ExtractSpec == ExtractInit /\ [][Build]_vars

\* str::trim, on the whitespace the texts of the model contain.
IsSpace(c) == c \in {" ", "\t", "\n"}

RECURSIVE TrimStart(_)
TrimStart(text) ==
    IF Len(text) > 0 /\ IsSpace(SubSeq(text, 1, 1))
    THEN TrimStart(SubSeq(text, 2, Len(text)))
    ELSE text

RECURSIVE TrimEnd(_)
TrimEnd(text) ==
    IF Len(text) > 0 /\ IsSpace(SubSeq(text, Len(text), Len(text)))
    THEN TrimEnd(SubSeq(text, 1, Len(text) - 1))
    ELSE text

Trim(text) == TrimEnd(TrimStart(text))

\* The texts that are not empty once trimmed, in document order.
RECURSIVE KeepNonBlank(_)
KeepNonBlank(texts) ==
    IF texts = << >> THEN << >>
    ELSE (IF Trim(Head(texts)) # "" THEN << Head(texts) >> ELSE << >>)
             \o KeepNonBlank(Tail(texts))

\* C11: the paragraphs kept in a chapter's Result are exactly the extracted
\* texts that are non-empty after trimming whitespace, in document order.
C11_KeepsNonBlankParagraphs ==
    (calc.stage = "built" /\ calc.output.success)
        => calc.output.content = KeepNonBlank(calc.input.outcome.paras)

\* C17: a page whose title matches and whose content selector yields no
\* non-empty paragraph becomes a failed Result with an extraction error, not a
\* successful chapter with an empty paragraph list.
C17_NoParagraphsIsFailure ==
    (/\ calc.stage = "built"
     /\ calc.input.outcome.kind = "html"
     /\ calc.input.outcome.titles # << >>
     /\ \A k \in DOMAIN calc.input.outcome.paras :
           calc.input.outcome.paras[k] = "")
        => /\ ~calc.output.success
           /\ calc.output.error_msg \notin {None, "", "Send failed: e",
                                            "Request failed: e"}

\* ------------------------------------------- the link resolver, on its own
\* Longest catalog (number of link matches) given to the resolver on its own.
MaxLinks == 3

\* a.value().attr("href"): << >> for an element without the attribute.
NoHref == << >>

\* The link matches a catalog page may hold.
Anchors ==
    {[href |-> h] : h \in {NoHref, << "/c1" >>, << "http://x/c2" >>, << "/c3" >>,
                           << "//c4" >>, << "ftp://x/c5" >>}}

\* str::starts_with
StartsWith(text, prefix) ==
    Len(text) >= Len(prefix) /\ SubSeq(text, 1, Len(prefix)) = prefix

\* str::trim_start_matches: strips every leading occurrence of `c`.
RECURSIVE TrimStartMatches(_, _)
TrimStartMatches(text, c) ==
    IF StartsWith(text, c)
    THEN TrimStartMatches(SubSeq(text, Len(c) + 1, Len(text)), c)
    ELSE text

\* The closure of .map(|href| ...).
ResolveHref(base_url, href) ==
    IF StartsWith(href, "http") THEN href
    ELSE base_url \o TrimStartMatches(href, "/")

\* .filter_map(|a| a.value().attr("href")).map(...).collect()
RECURSIVE ChapterUrls(_, _)
ChapterUrls(base_url, anchors) ==
    IF anchors = << >> THEN << >>
    ELSE (IF Head(anchors).href = NoHref THEN << >>
          ELSE << ResolveHref(base_url, Head(Head(anchors).href)) >>)
             \o ChapterUrls(base_url, Tail(anchors))

ResolveInit ==
    /\ CrawlInit
    /\ concurrent_limit = 0
    /\ calc \in {[stage |-> "catalog",
                  input |-> [base_url |-> "https://h/", anchors |-> as],
                  output |-> << >>] : as \in SeqsUpTo(Anchors, MaxLinks)}

\* main computes chapter_urls from the catalog document.
Resolve ==
    /\ calc.stage = "catalog"
    /\ calc' = [calc EXCEPT !.stage = "resolved",
                            !.output = ChapterUrls(calc.input.base_url,
                                                   calc.input.anchors)]
    /\ UNCHANGED crawlVars

ResolveSpec == ResolveInit /\ [][Resolve]_vars

\* A link value that already has a scheme: "<scheme>://...".
HasScheme(href) ==
    \E i \in 2 .. Len(href) : StartsWith(SubSeq(href, i, Len(href)), "://")

\* The value without one leading path separator, if it has one.
StripOneSeparator(href) ==
    IF StartsWith(href, "/") THEN SubSeq(href, 2, Len(href)) ELSE href

Locator(base_url, href) ==
    IF HasScheme(href) THEN href ELSE base_url \o StripOneSeparator(href)

\* C12: a catalog with M link matches resolves to exactly M locators, in
\* document order; a value that has a scheme passes through unchanged, a
\* relative value is joined to base_url after stripping exactly one leading
\* path separator.
C12_ResolverContract ==
    calc.stage = "resolved"
        => /\ Len(calc.output) = Len(calc.input.anchors)
           /\ \A k \in DOMAIN calc.input.anchors :
                 calc.input.anchors[k].href # NoHref
                     => /\ k \in DOMAIN calc.output
                        /\ calc.output[k]
                               = Locator(calc.input.base_url,
                                         Head(calc.input.anchors[k].href))

\* The scenario of the specification resolves as it says.
C12_ScenarioHolds ==
    ChapterUrls("https://h/", << [href |-> << "/c1" >>],
                                 [href |-> << "http://x/c2" >>],
                                 [href |-> << "/c3" >>] >>)
        = << "https://h/c1", "http://x/c2", "https://h/c3" >>

\* ------------------------------------------------------ C13: catalog failure
\* The run was aborted: `?` returned the catalog's transport error, or
\* mpsc::channel(0) panicked.
Aborted == pc \in {"fatal", "panicked"}

\* C13: when the catalog fetch fails or the catalog yields zero link matches,
\* the run is aborted before any worker is dispatched: no task is spawned, no
\* permit is taken, no Result exists, nothing is written, and nothing happens
\* afterwards.
C13_CatalogFailureAborts ==
    /\ []((pc # "catalog" /\ total_chapters = 0) => Aborted)
    /\ [](Aborted =>
             /\ total_chapters = 0
             /\ spawned = 0
             /\ \A w \in Indices : wpc[w] = "none" /\ emitted[w] = 0
             /\ permits = concurrent_limit
             /\ chan = << >>
             /\ chapter_results = << >>
             /\ output_file = << >>)
    /\ [][~Aborted]_vars

\* The catalog had no link and the run was aborted.
C13_Witness == pc = "panicked" /\ total_chapters = 0 /\ concurrent_limit > 0

\* ------------------------------------------------- load_config, on its own
DEFAULT_CONCURRENT_LIMIT == 15
DEFAULT_BASE_URL == "https://www.alicesw.com/"
DEFAULT_CATALOG_URL == "https://www.alicesw.com/other/chapters/id/47686.html"
DEFAULT_OUTPUT_FILE == "output.txt"
DEFAULT_TITLE_SELECTOR == ".j_chapterName"
DEFAULT_CONTENT_SELECTOR == ".read-content p"
DEFAULT_CHAPTER_LINK_SELECTOR == ".mulu_list li a"

\* An absent key or section is << >>, a present one << value >>.
Absent == << >>

Optional(S) == {Absent} \cup {<< v >> : v \in S}

\* The tables a config.toml that parses may hold.
TomlFiles ==
    [crawl : Optional([concurrent_limit : Optional(0 .. MaxLimit)]),
     urls : Optional([base_url : Optional({"https://h/"}),
                      catalog_url : Optional({"https://h/list"})]),
     selectors : Optional([title_selector : Optional({"h1"}),
                           content_selector : Optional({"p"}),
                           chapter_link_selector : Optional({"a"})]),
     output : Optional([file : Optional({"book.txt"})])]

\* What find_config_file, read_to_string and toml::from_str may give.
ConfigInputs ==
    {[kind |-> k, file |-> Absent] : k \in {"not_found", "unreadable", "parse_error"}}
        \cup {[kind |-> "parsed", file |-> << f >>] : f \in TomlFiles}

\* #[derive(Default)]: usize::default() and String::default().
CrawlConfigDefault == [concurrent_limit |-> 0]
UrlsConfigDefault == [base_url |-> "", catalog_url |-> ""]
SelectorsConfigDefault ==
    [title_selector |-> "", content_selector |-> "", chapter_link_selector |-> ""]
OutputConfigDefault == [file |-> ""]
ConfigDefault ==
    [crawl |-> CrawlConfigDefault, urls |-> UrlsConfigDefault,
     selectors |-> SelectorsConfigDefault, output |-> OutputConfigDefault]

\* #[serde(default = "default_...")] on a key; #[serde(default)] on a section.
OrElse(opt, d) == IF opt = Absent THEN d ELSE Head(opt)

DeserializeCrawl(t) ==
    [concurrent_limit |-> OrElse(t.concurrent_limit, DEFAULT_CONCURRENT_LIMIT)]
DeserializeUrls(t) ==
    [base_url |-> OrElse(t.base_url, DEFAULT_BASE_URL),
     catalog_url |-> OrElse(t.catalog_url, DEFAULT_CATALOG_URL)]
DeserializeSelectors(t) ==
    [title_selector |-> OrElse(t.title_selector, DEFAULT_TITLE_SELECTOR),
     content_selector |-> OrElse(t.content_selector, DEFAULT_CONTENT_SELECTOR),
     chapter_link_selector |-> OrElse(t.chapter_link_selector,
                                      DEFAULT_CHAPTER_LINK_SELECTOR)]
DeserializeOutput(t) == [file |-> OrElse(t.file, DEFAULT_OUTPUT_FILE)]

DeserializeConfig(f) ==
    [crawl |-> IF f.crawl = Absent THEN CrawlConfigDefault
               ELSE DeserializeCrawl(Head(f.crawl)),
     urls |-> IF f.urls = Absent THEN UrlsConfigDefault
              ELSE DeserializeUrls(Head(f.urls)),
     selectors |-> IF f.selectors = Absent THEN SelectorsConfigDefault
                   ELSE DeserializeSelectors(Head(f.selectors)),
     output |-> IF f.output = Absent THEN OutputConfigDefault
                ELSE DeserializeOutput(Head(f.output))]

load_config(in) ==
    IF in.kind = "parsed" THEN DeserializeConfig(Head(in.file)) ELSE ConfigDefault

ConfigInit ==
    /\ CrawlInit
    /\ concurrent_limit = 0
    /\ calc \in {[stage |-> "start", input |-> in, output |-> ConfigDefault] :
                    in \in ConfigInputs}

\* let config = load_config();
LoadConfig ==
    /\ calc.stage = "start"
    /\ calc' = [calc EXCEPT !.stage = "loaded", !.output = load_config(calc.input)]
    /\ UNCHANGED crawlVars

ConfigSpec == ConfigInit /\ [][LoadConfig]_vars

\* The documented default of every field.
DocumentedDefaults ==
    [crawl |-> [concurrent_limit |-> DEFAULT_CONCURRENT_LIMIT],
     urls |-> [base_url |-> DEFAULT_BASE_URL, catalog_url |-> DEFAULT_CATALOG_URL],
     selectors |-> [title_selector |-> DEFAULT_TITLE_SELECTOR,
                    content_selector |-> DEFAULT_CONTENT_SELECTOR,
                    chapter_link_selector |-> DEFAULT_CHAPTER_LINK_SELECTOR],
     output |-> [file |-> DEFAULT_OUTPUT_FILE]]

\* Key `key` of section `sec` is absent from the configuration input.
FieldAbsent(in, sec, key) ==
    \/ in.kind # "parsed"
    \/ Head(in.file)[sec] = Absent
    \/ Head(Head(in.file)[sec])[key] = Absent

\* C14: whatever the configuration input (no file, unreadable file, parse
\* failure, missing section, missing key), every absent field takes its
\* documented default, and the permit pool capacity is a positive integer.
C14_AbsentFieldsTakeDefaults ==
    calc.stage = "loaded"
        => /\ \A sec \in DOMAIN DocumentedDefaults :
                 \A key \in DOMAIN DocumentedDefaults[sec] :
                     FieldAbsent(calc.input, sec, key)
                         => calc.output[sec][key] = DocumentedDefaults[sec][key]
           /\ calc.output.crawl.concurrent_limit > 0

\* ------------------------------------------------- C15: closure of the channel
\* The tasks that still own their clone of tx: it is moved into the task's
\* block and dropped when the block ends or the task is dropped.
TxClones == {w \in Workers : ~Finished(w)}

\* A plausible slip: main's tx is dropped after the dispatch loop.
SenderCountClonesOnly == Cardinality(TxClones)

\* The Sender handles alive: main's own tx, from the creation of the channel
\* to the end of main, and the tasks' clones.
SenderCount ==
    (IF pc \in {"dispatch", "collect", "write"} THEN 1 ELSE 0) + Cardinality(TxClones)

\* rx.recv() gives None once no Sender is left and the buffer is empty.
Closed == SenderCount = 0

AllFinished == \A w \in Workers : Finished(w)

CollectorStep == << pc, pending_count, waiting_time >>' # << pc, pending_count, waiting_time >>

EndsEarly == Collecting /\ Collected' /\ pending_count' > 0

Emits(w) == emitted'[w] = emitted[w] + 1
Releases(w) == Holding(w) /\ ~Holding(w)'

\* C16 as claimed: the permit is released before the Result is put into the
\* channel, so a task whose Result is in the channel or collected holds no
\* permit.
C16_EmittedHoldsNoPermit == \A w \in Workers : emitted[w] = 1 => ~Holding(w)

\* C16 amended: within a task the order is acquire, fetch, parse, emit,
\* release. The emitting step happens while the task holds its permit and
\* leaves the pool as it is; the permit goes back to the pool in a later step,
\* after the send has returned (or when the runtime drops the task).
C16_EmitsThenReleases ==
    /\ [](\A w \in Workers :
             /\ wpc[w] = "send" => emitted[w] = 0
             /\ emitted[w] = 1 => wpc[w] \in {"release", "done"})
    /\ [][\A w \in Workers :
             Emits(w) => /\ Holding(w) /\ Holding(w)'
                         /\ permits' = permits]_vars
    /\ [][\A w \in Workers :
             Releases(w) => /\ permits' = permits + 1
                            /\ ~Emits(w)
                            /\ wpc[w] = "release" \/ wpc'[w] = "cancelled"]_vars

\* A task's Result is already collected while the task still holds its permit.
C16_Witness ==
    \E w \in Workers :
        /\ emitted[w] = 1
        /\ Holding(w)
        /\ wres[w] \in Range(chapter_results)

\* ------------------------------------------------------- C18: write failures
\* The whole block of `result` is in the file: its write_chapter returned Ok.
Written(result) ==
    [chapter_num |-> result.index + 1, lines |-> ChapterLines(result)]
        \in Range(output_file)

WriteFailed(k) == chapter_results[k].success /\ ~Written(chapter_results[k])

\* C18: a failed write of one chapter is counted as one failure and not as a
\* success, the write pass goes on with the next Result in sorted order, a
\* later successful Result can still be written whole, and main returns Ok
\* only after the pass went over every collected Result.
C18_WriteFailureTolerated ==
    /\ [](Collected =>
             /\ success_count
                    = Cardinality({k \in 1 .. wi : /\ chapter_results[k].success
                                                   /\ Written(chapter_results[k])})
             /\ fail_count
                    = NumFailed(Processed) + Cardinality({k \in 1 .. wi : WriteFailed(k)})
             /\ (pc = "write" /\ wi < Len(chapter_results)) => ENABLED WriteStep
             /\ pc = "done" => wi = Len(chapter_results))
    /\ [][pc = "write" =>
             /\ pc' \in {"write", "done"}
             /\ wi' \in {wi, wi + 1}
             /\ (wi' = wi + 1 /\ chapter_results[wi + 1].success) =>
                   \E o \in WriteOutcomes(chapter_results[wi + 1]) :
                       output_file' = WriteChapter(output_file,
                                                   chapter_results[wi + 1], o)]_vars

\* The run is over: one chapter's write failed and a later chapter is in the
\* file whole.
C18_Witness ==
    /\ pc = "done"
    /\ \E i, j \in DOMAIN chapter_results :
          /\ i < j
          /\ WriteFailed(i)
          /\ chapter_results[j].success
          /\ Written(chapter_results[j])
    /\ fail_count = 1
    /\ success_count >= 1

\* ----------------------------------------------------------- C19: stragglers
\* Task w put its Result into the channel and the collector never took it.
Straggler(w) == Collected /\ emitted[w] = 1 /\ CountOf(chapter_results, w) = 0

\* A step of a task that was spawned before.
WorkerStep == \E w \in Workers : wpc[w] # "none" /\ wpc'[w] # wpc[w]

\* C19: once collection has ended the collected Results are never modified,
\* and a Result emitted after the give-up is never among them, never has a
\* block in the file and never changes the counts: no step of a task changes
\* anything the write pass reads or writes.
C19_StragglersIgnored ==
    /\ [](\A w \in Workers :
             Straggler(w) =>
                 /\ \A k \in DOMAIN chapter_results : chapter_results[k] # wres[w]
                 /\ \A b \in Range(output_file) : b.chapter_num # w + 1
                 /\ success_count + fail_count <= Len(chapter_results)
                 /\ Len(chapter_results) < total_chapters)
    /\ [][Collected => chapter_results' = chapter_results]_vars
    /\ [][WorkerStep => UNCHANGED << pc, chapter_results, pending_count,
                                    success_count, fail_count, wi,
                                    output_file >>]_vars

\* The write pass is over and a Result that came after the give-up lies in
\* the channel.
C19_Witness ==
    /\ WritePassOver
    /\ pc = "write"
    /\ Len(chapter_results) >= 1
    /\ \E w \in Workers : Straggler(w) /\ wres[w] \in Range(chan)

\* ------------------------------------------------- C20: emit never blocks
Dispatched == {w \in Workers : wpc[w] # "none"}

WorkerCanStep(w) ==
    ENABLED (Acquire(w) \/ FetchDone(w) \/ Send(w) \/ Release(w))

\* C20: the channel has room for total_chapters Results and each task sends
\* at most once, so the channel never holds more than total_chapters Results
\* and a task at its send, still holding its permit, can always complete it,
\* also after the collector has stopped receiving; with a pool of at least
\* one permit, some unfinished task can always take a step.
C20_EmitNeverBlocks ==
    [](/\ Len(chan) <= total_chapters
       /\ \A w \in Workers : emitted[w] <= 1
       /\ \A w \in Workers :
             wpc[w] = "send" => /\ Holding(w)
                                /\ rx_open => Len(chan) < ChannelCapacity
                                /\ ENABLED Send(w)
       /\ (concurrent_limit >= 1 /\ \E w \in Dispatched : ~Finished(w))
             => \E w \in Dispatched : WorkerCanStep(w))

\* The collector has given up without receiving anything; the channel holds
\* all Results but the one the last task is about to send.
C20_Witness ==
    /\ pc = "write"
    /\ total_chapters = MaxChapters
    /\ Len(chan) = total_chapters - 1
    /\ \E w \in Workers : wpc[w] = "send"

====
